---------------------------- MODULE Spec2Model ----------------------------
(***************************************************************************)
(* Model of src/utils.py: the four price / position-size calculations,     *)
(* with Python's decimal arithmetic (50 significant digits, round half     *)
(* even) and the float -> str -> Decimal conversion of the percentages     *)
(* carried out digit by digit.                                             *)
(*                                                                         *)
(* A natural number of any size is a sequence of decimal digits, most      *)
(* significant first, without leading zeros (<<>> is zero).  A Decimal is  *)
(* [sign, int, exp] as in Python's Decimal (_sign, _int, _exp), kept in    *)
(* the canonical form without trailing zeros, so that equality of records  *)
(* is Decimal.__eq__ (numerical equality).  A float (an IEEE double) is    *)
(* [val, half, even, pow2]: val its exact value as a Decimal, half the     *)
(* half of the gap to the next double above it, even whether its 53-bit    *)
(* significand is even, pow2 whether the significand is a power of two.    *)
(***************************************************************************)
EXTENDS Integers, Sequences, FiniteSets, TLC

\* getcontext().prec = 50
Prec == 50

(***************************************************************************)
(* Arbitrary-size naturals as digit sequences.  Carries are found by       *)
(* look-ahead instead of a digit-by-digit recursion.                       *)
(***************************************************************************)
\* the position of the first non-zero digit of x (x has one)
FirstNonZero(x) ==
    CHOOSE i \in 1..Len(x) : x[i] # 0 /\ \A j \in 1..(i - 1) : x[j] = 0

\* the position of the last non-zero digit of x (x has one)
LastNonZero(x) ==
    CHOOSE i \in 1..Len(x) : x[i] # 0 /\ \A j \in (i + 1)..Len(x) : x[j] = 0

\* x without its leading zeros
Strip(x) ==
    IF \A i \in 1..Len(x) : x[i] = 0 THEN <<>>
    ELSE SubSeq(x, FirstNonZero(x), Len(x))

Zeros(n) == [i \in 1..n |-> 0]

PadL(x, n) == Zeros(n - Len(x)) \o x

Max(m, n) == IF m > n THEN m ELSE n

Min(m, n) == IF m < n THEN m ELSE n

RECURSIVE IntDigits(_)
IntDigits(n) == IF n = 0 THEN <<>> ELSE Append(IntDigits(n \div 10), n % 10)

RECURSIVE DigitsInt(_)
DigitsInt(x) ==
    IF x = <<>> THEN 0 ELSE 10 * DigitsInt(SubSeq(x, 1, Len(x) - 1)) + x[Len(x)]

\* the first position where x and y differ (they have the same length)
FirstDifference(x, y) ==
    CHOOSE i \in 1..Len(x) : x[i] # y[i] /\ \A j \in 1..(i - 1) : x[j] = y[j]

\* -1 or 1 as x[i] < y[i] or not
DigitCmp(x, y, i) == IF x[i] < y[i] THEN -1 ELSE 1

\* -1, 0, 1 as x <, =, > y (both without leading zeros)
BigCmp(x, y) ==
    IF Len(x) < Len(y) THEN -1
    ELSE IF Len(x) > Len(y) THEN 1
    ELSE IF x = y THEN 0
    ELSE DigitCmp(x, y, FirstDifference(x, y))

\* a + b for a and b of the same length, the first digit of both 0: a
\* carry enters position i when a position to its right overflows and
\* every position in between holds a 9
AddPadded(a, b) ==
    Strip([i \in 1..Len(a) |->
             (a[i] + b[i]
                + (IF \E j \in (i + 1)..Len(a) :
                          /\ a[j] + b[j] >= 10
                          /\ \A t \in (i + 1)..(j - 1) : a[t] + b[t] = 9
                   THEN 1 ELSE 0)) % 10])

\* x + y
BigAdd(x, y) ==
    AddPadded(PadL(x, 1 + Max(Len(x), Len(y))),
              PadL(y, 1 + Max(Len(x), Len(y))))

\* x - b for x >= b, b of the length of x
SubPadded(x, b) ==
    Strip([i \in 1..Len(x) |->
             (x[i] - b[i]
                - (IF \E j \in (i + 1)..Len(x) :
                          /\ x[j] < b[j]
                          /\ \A t \in (i + 1)..(j - 1) : x[t] = b[t]
                   THEN 1 ELSE 0)
                + 10) % 10])

\* x - y for x >= y
BigSub(x, y) == SubPadded(x, PadL(y, Len(x)))

\* x * d for a digit d
BigMulDigit(x, d) ==
    BigAdd([i \in 1..Len(x) |-> (x[i] * d) % 10],
           [i \in 1..Len(x) |-> (x[i] * d) \div 10] \o <<0>>)

\* x times the number written y[lo..hi]
RECURSIVE MulRange(_, _, _, _)
MulRange(x, y, lo, hi) ==
    IF lo = hi THEN BigMulDigit(x, y[lo])
    ELSE BigAdd(MulRange(x, y, lo, (lo + hi) \div 2)
                    \o Zeros(hi - (lo + hi) \div 2),
                MulRange(x, y, (lo + hi) \div 2 + 1, hi))

\* x * y
BigMul(x, y) ==
    IF x = <<>> \/ y = <<>> THEN <<>>
    ELSE IF Len(x) >= Len(y) THEN MulRange(x, y, 1, Len(y))
    ELSE MulRange(y, x, 1, Len(x))

\* long division by d, four digits of the dividend x at a time: i the next
\* position, r the remainder so far, q the quotient so far, t the number
\* to divide at this step
RECURSIVE DivSmallRec(_, _, _, _, _)
DivSmallStep(x, d, i, q, t) ==
    DivSmallRec(x, d, i + 4, t % d, q \o PadL(IntDigits(t \div d), 4))

DivSmallRec(x, d, i, r, q) ==
    IF i > Len(x) THEN [q |-> Strip(q), r |-> r]
    ELSE DivSmallStep(x, d, i, q, r * 10000 + DigitsInt(SubSeq(x, i, i + 3)))

\* divmod(x, d) for a machine integer 0 < d < 10^5
BigDivSmall(x, d) ==
    DivSmallRec(PadL(x, 4 * ((Len(x) + 3) \div 4)), d, 1, 0, <<>>)

(***************************************************************************)
(* decimal.Decimal                                                         *)
(***************************************************************************)
\* Decimal('0')
DZero == [sign |-> 0, int |-> <<>>, exp |-> 0]

\* the Decimal of the non-zero coefficient s, its zeros after position l
\* moved into the exponent
DecTrimmed(sign, s, exp, l) ==
    [sign |-> sign, int |-> SubSeq(s, 1, l), exp |-> exp + Len(s) - l]

\* the Decimal of the coefficient s without leading zeros
DecStripped(sign, s, exp) ==
    IF s = <<>> THEN DZero ELSE DecTrimmed(sign, s, exp, LastNonZero(s))

\* The Decimal of value (-1)^sign * int * 10^exp, in canonical form
Dec(sign, int, exp) == DecStripped(sign, Strip(int), exp)

\* Decimal(str(n)) for an int n
DecimalOfInt(n) ==
    IF n < 0 THEN Dec(1, IntDigits(-n), 0) ELSE Dec(0, IntDigits(n), 0)

\* whether rounding the coefficient c to p digits rounds up: the digits
\* dropped are more than half a unit, or half a unit and digit p is odd
RoundsUp(c, p) ==
    \/ c[p + 1] > 5
    \/ c[p + 1] = 5 /\ \E i \in (p + 2)..Len(c) : c[i] # 0
    \/ c[p + 1] = 5 /\ c[p] % 2 = 1

\* ROUND_HALF_EVEN to p significant digits (Decimal._fix, _round_half_even)
RoundHalfEven(d, p) ==
    IF Len(d.int) <= p THEN d
    ELSE Dec(d.sign,
             IF RoundsUp(d.int, p) THEN BigAdd(SubSeq(d.int, 1, p), <<1>>)
             ELSE SubSeq(d.int, 1, p),
             d.exp + Len(d.int) - p)

Decimal_fix(d) == RoundHalfEven(d, Prec)

\* Decimal.__neg__ without the rounding
Decimal_neg(a) == IF a.int = <<>> THEN a ELSE [a EXCEPT !.sign = 1 - a.sign]

\* Decimal.__abs__ without the rounding
Decimal_abs(a) == [a EXCEPT !.sign = 0]

\* the coefficient of a at the exponent e <= a.exp
Coefficient(a, e) == IF a.int = <<>> THEN <<>> ELSE a.int \o Zeros(a.exp - e)

\* (-1)^sa * ca * 10^e + (-1)^sb * cb * 10^e
AddAligned(sa, ca, sb, cb, e) ==
    IF sa = sb \/ ca = <<>> \/ cb = <<>>
    THEN Dec(IF ca = <<>> THEN sb ELSE sa, BigAdd(ca, cb), e)
    ELSE IF BigCmp(ca, cb) >= 0 THEN Dec(sa, BigSub(ca, cb), e)
    ELSE Dec(sb, BigSub(cb, ca), e)

\* a + b with both coefficients at the exponent e
AddAt(a, b, e) ==
    AddAligned(a.sign, Coefficient(a, e), b.sign, Coefficient(b, e), e)

\* the exact sum, before the context rounds it
AddExact(a, b) == AddAt(a, b, Min(a.exp, b.exp))

\* Decimal.__add__
Decimal_add(a, b) == Decimal_fix(AddExact(a, b))

\* Decimal.__sub__
Decimal_sub(a, b) == Decimal_fix(AddExact(a, Decimal_neg(b)))

\* the exact product, before the context rounds it
MulExact(a, b) == Dec((a.sign + b.sign) % 2, BigMul(a.int, b.int), a.exp + b.exp)

\* Decimal.__mul__
Decimal_mul(a, b) == Decimal_fix(MulExact(a, b))

\* the quotient qr.q with a sticky digit for a non-zero remainder qr.r
WithSticky(qr) == qr.q \o (IF qr.r = 0 THEN <<0>> ELSE <<1>>)

\* a / b from the integer division of a's coefficient times 10^shift
DivShifted(a, b, shift) ==
    Decimal_fix(Dec((a.sign + b.sign) % 2,
                    WithSticky(BigDivSmall(a.int \o Zeros(shift),
                                           DigitsInt(b.int))),
                    a.exp - b.exp - shift - 1))

\* Decimal.__truediv__ for a divisor whose coefficient is below 10^5:
\* the quotient to Prec + 1 digits or more, a sticky digit for a non-zero
\* remainder, then the context's rounding
Decimal_truediv(a, b) ==
    IF a.int = <<>> THEN DZero
    ELSE DivShifted(a, b, Max(0, Len(b.int) - Len(a.int) + Prec + 1))

\* -1, 0, 1 as d <, =, > 0
Signum(d) == IF d.int = <<>> THEN 0 ELSE IF d.sign = 1 THEN -1 ELSE 1

\* -1, 0, 1 as a <, =, > b (Decimal._cmp)
Decimal_cmp(a, b) == Signum(AddExact(a, Decimal_neg(b)))

\* max(a, b) that forgets to compare
Decimal_maxFirst(a, b) == a

\* max(a, b) of Python: the first argument unless the second is greater
Decimal_max(a, b) == IF Decimal_cmp(b, a) > 0 THEN b ELSE a

(***************************************************************************)
(* float and str(float)                                                    *)
(***************************************************************************)
\* Decimal('0.5')
Half == [sign |-> 0, int |-> <<5>>, exp |-> -1]

\* how far from the float x a decimal at the distance diff from it may be
\* and still convert to x: half the gap to the neighbouring double, and
\* below a power of two the doubles are twice as dense
HalfGap(x, diff) ==
    IF diff.int # <<>> /\ diff.sign # x.val.sign /\ x.pow2
    THEN MulExact(x.half, Half)
    ELSE x.half

\* float(str) rounds to nearest, ties to the even significand: rel is -1,
\* 0, 1 as the distance is below, at or above half the gap
Nearest(x, rel) == rel < 0 \/ (rel = 0 /\ x.even)

\* whether a decimal at the distance diff from x converts to x
Within(x, diff) ==
    Nearest(x, Decimal_cmp(Decimal_abs(diff), HalfGap(x, diff)))

\* whether the decimal c converts back to the float x
RoundTrips(x, c) == Within(x, AddExact(c, Decimal_neg(x.val)))

\* the least n in lo..hi such that x rounded to n significant digits
\* converts back to x (if n digits do, so do n + 1: the search may bisect)
RECURSIVE ShortestDigits(_, _, _)
ShortestDigits(x, lo, hi) ==
    IF lo = hi THEN lo
    ELSE IF RoundTrips(x, RoundHalfEven(x.val, (lo + hi) \div 2))
    THEN ShortestDigits(x, lo, (lo + hi) \div 2)
    ELSE ShortestDigits(x, (lo + hi) \div 2 + 1, hi)

\* Decimal(str(x)) for a float x: str gives the shortest decimal string
\* that converts back to x, the nearest to x among the shortest; 17
\* significant digits always suffice
DecimalOfFloatStr(x) == RoundHalfEven(x.val, ShortestDigits(x, 1, 17))

\* 2 * x for a float x (exact: only the binary exponent changes)
FloatDouble(x) ==
    [x EXCEPT !.val  = AddExact(x.val, x.val),
              !.half = AddExact(x.half, x.half)]

\* x > 0 for a float x
FloatPositive(x) == x.val.int # <<>> /\ x.val.sign = 0

\* bool(x) for a float x
FloatTruthy(x) == x.val.int # <<>>

\* the float 0.0
Float0 == [val |-> DZero, half |-> DZero, even |-> TRUE, pow2 |-> FALSE]

\* the float 5.0
Float5 ==
    [val  |-> Dec(0, <<5>>, 0),
     half |-> Dec(0,
              <<4,4,4,0,8,9,2,0,9,8,5,0,0,6,2,6,1,6,1,6,9,4,5,2,6,6,7,2,3,6,
                3,2,8,1,2,5>>,
              -51),
     even |-> TRUE, pow2 |-> FALSE]

\* the float 2.0
Float2 ==
    [val  |-> Dec(0, <<2>>, 0),
     half |-> Dec(0,
              <<2,2,2,0,4,4,6,0,4,9,2,5,0,3,1,3,0,8,0,8,4,7,2,6,3,3,3,6,1,8,
                1,6,4,0,6,2,5>>,
              -52),
     even |-> TRUE, pow2 |-> TRUE]

\* the float 10.0
Float10 ==
    [val  |-> Dec(0, <<1>>, 1),
     half |-> Dec(0,
              <<8,8,8,1,7,8,4,1,9,7,0,0,1,2,5,2,3,2,3,3,8,9,0,5,3,3,4,4,7,2,
                6,5,6,2,5>>,
              -50),
     even |-> TRUE, pow2 |-> FALSE]

\* the float 250.0
Float250 ==
    [val  |-> Dec(0, <<2,5>>, 1),
     half |-> Dec(0,
              <<1,4,2,1,0,8,5,4,7,1,5,2,0,2,0,0,3,7,1,7,4,2,2,4,8,5,3,5,1,5,
                6,2,5>>,
              -46),
     even |-> TRUE, pow2 |-> FALSE]

\* the float -1.0
FloatNeg1 ==
    [val  |-> Dec(1, <<1>>, 0),
     half |-> Dec(0,
              <<1,1,1,0,2,2,3,0,2,4,6,2,5,1,5,6,5,4,0,4,2,3,6,3,1,6,6,8,0,9,
                0,8,2,0,3,1,2,5>>,
              -53),
     even |-> TRUE, pow2 |-> TRUE]

\* the float 0.30000000000000004 (0.1 + 0.2), 0x1.3333333333334p-2
Float03 ==
    [val  |-> Dec(0,
              <<3,0,0,0,0,0,0,0,0,0,0,0,0,0,0,0,4,4,4,0,8,9,2,0,9,8,5,0,0,6,
                2,6,1,6,1,6,9,4,5,2,6,6,7,2,3,6,3,2,8,1,2,5>>,
              -52),
     half |-> Dec(0,
              <<2,7,7,5,5,5,7,5,6,1,5,6,2,8,9,1,3,5,1,0,5,9,0,7,9,1,7,0,2,2,
                7,0,5,0,7,8,1,2,5>>,
              -55),
     even |-> TRUE, pow2 |-> FALSE]

\* the float 2.0 ** -170 (6.681911775230489e-52)
FloatTiny ==
    [val  |-> Dec(0,
              <<6,6,8,1,9,1,1,7,7,5,2,3,0,4,8,9,1,1,5,3,5,1,3,4,1,1,6,7,8,7,
                8,7,0,4,6,9,7,0,3,7,9,9,2,2,0,0,2,6,2,6,2,1,7,4,4,9,0,4,8,4,
                3,7,3,0,4,0,0,9,9,6,6,0,2,4,6,7,8,2,5,8,9,6,6,7,6,2,4,5,6,3,
                3,8,9,8,3,6,1,1,2,0,3,7,3,0,1,0,6,3,5,3,7,5,9,7,6,5,6,2,5>>,
              -170),
     half |-> Dec(0,
              <<7,4,1,8,4,1,2,3,0,1,3,7,4,8,4,2,7,7,1,4,6,3,4,7,0,5,2,3,0,9,
                5,2,7,9,0,2,6,7,3,5,1,2,9,5,5,7,5,1,5,5,8,2,0,0,4,9,0,6,0,7,
                8,1,1,7,8,3,5,1,6,2,6,8,0,1,9,1,2,5,8,7,1,7,9,9,4,6,2,4,1,6,
                5,4,4,6,4,1,6,8,7,5,0,7,2,6,7,7,8,3,8,2,7,2,0,0,2,3,1,8,0,5,
                4,0,9,9,1,3,4,7,6,9,7,8,5,4,5,0,7,7,1,4,5,0,9,9,6,3,9,8,9,2,
                5,7,8,1,2,5>>,
              -223),
     even |-> TRUE, pow2 |-> TRUE]

(***************************************************************************)
(* The calls.  A function ends as [kind, exc, val, locals]: kind "return"  *)
(* with the value val, or kind "raise" with the exception class exc;       *)
(* locals are the local variables it held when it got to its last return   *)
(* statement (<<>> when it left earlier).  An optional argument is <<>>    *)
(* when the caller omits it (or passes None) and <<v>> when the caller     *)
(* passes v.                                                               *)
(***************************************************************************)
Return(v, l) == [kind |-> "return", exc |-> "", val |-> v, locals |-> l]

Raise(e) == [kind |-> "raise", exc |-> e, val |-> <<>>, locals |-> <<>>]

\* what the caller sees of the way a function ended
Outcome(r) == [kind |-> r.kind, exc |-> r.exc, val |-> r.val]

NoResult == [kind |-> "none", exc |-> "", val |-> <<>>]

\* Decimal(str(p)) / Decimal('100')
PercentFactor(p) == Decimal_truediv(DecimalOfFloatStr(p), DecimalOfInt(100))

\* whether tp2_percentage is given, truthy and positive
Tp2Given(tp2_percentage) ==
    /\ tp2_percentage # <<>>
    /\ FloatTruthy(tp2_percentage[1])
    /\ FloatPositive(tp2_percentage[1])

\* a TP2 factor whose default is the TP1 factor itself
Tp2FactorNotDoubled(tp1_percentage, tp2_percentage) ==
    PercentFactor(IF Tp2Given(tp2_percentage) THEN tp2_percentage[1]
                  ELSE tp1_percentage)

\* the TP2 factor: the given percentage, or twice the TP1 factor
Tp2Factor(tp1_percentage, tp2_percentage) ==
    IF Tp2Given(tp2_percentage) THEN PercentFactor(tp2_percentage[1])
    ELSE Decimal_mul(PercentFactor(tp1_percentage), DecimalOfInt(2))

\* a price change that leaves the leverage out
PriceChangeUnleveraged(entry_price, factor, leverage) ==
    Decimal_mul(entry_price, factor)

\* entry_price * (factor / Decimal(str(leverage)))
PriceChange(entry_price, factor, leverage) ==
    Decimal_mul(entry_price, Decimal_truediv(factor, DecimalOfInt(leverage)))

\* a take-profit price: above the entry for LONG, below it for SHORT
TargetPrice(entry_price, direction, price_change) ==
    Decimal_fix(AddExact(entry_price,
                         IF direction = "LONG" THEN price_change
                         ELSE Decimal_neg(price_change)))

\* a stop price on the side of the take-profit
StopPriceNotInverted(entry_price, direction, price_change) ==
    TargetPrice(entry_price, direction, price_change)

\* the stop-loss price: below the entry for LONG, above it for SHORT
StopPrice(entry_price, direction, price_change) ==
    Decimal_fix(AddExact(entry_price,
                         IF direction = "LONG" THEN Decimal_neg(price_change)
                         ELSE price_change))

\* the prices before the clamp, with the price changes they come from
PricesOf(entry_price, direction, price_change_tp1, price_change_sl, price_change_tp2) ==
    [price_change_tp1 |-> price_change_tp1,
     price_change_sl  |-> price_change_sl,
     price_change_tp2 |-> price_change_tp2,
     tp1_price |-> TargetPrice(entry_price, direction, price_change_tp1),
     sl_price  |-> StopPrice(entry_price, direction, price_change_sl),
     tp2_price |-> TargetPrice(entry_price, direction, price_change_tp2)]

\* the local variables of calculate_percentage_based_prices when it
\* reaches its return statement
PercentageLocals(entry_price, direction, leverage, tp1_percentage, sl_percentage, tp2_percentage) ==
    PricesOf(entry_price, direction,
             PriceChange(entry_price, PercentFactor(tp1_percentage), leverage),
             PriceChange(entry_price, PercentFactor(sl_percentage), leverage),
             PriceChange(entry_price,
                         Tp2Factor(tp1_percentage, tp2_percentage), leverage))

\* the return statement: no price below zero
ClampedPrices(l) ==
    Return([tp1_price |-> Decimal_max(l.tp1_price, DZero),
            sl_price  |-> Decimal_max(l.sl_price, DZero),
            tp2_price |-> Decimal_max(l.tp2_price, DZero)], l)

calculate_percentage_based_prices(entry_price, direction, leverage, tp1_percentage, sl_percentage, tp2_percentage) ==
    IF leverage <= 0 THEN Raise("ValueError")
    ELSE IF direction \notin {"LONG", "SHORT"} THEN Raise("ValueError")
    ELSE ClampedPrices(PercentageLocals(entry_price, direction, leverage,
                                        tp1_percentage, sl_percentage,
                                        tp2_percentage))

\* a position size that takes a negative risk amount
PositionSizeUnchecked(risk_amount, leverage) ==
    IF leverage <= 0 THEN Raise("ValueError")
    ELSE Return(Decimal_mul(risk_amount, DecimalOfInt(leverage)), <<>>)

calculate_position_size_usdt(risk_amount, leverage) ==
    IF leverage <= 0 THEN Raise("ValueError")
    ELSE IF Signum(risk_amount) < 0 THEN Raise("ValueError")
    ELSE Return(Decimal_mul(risk_amount, DecimalOfInt(leverage)), <<>>)

\* a quantity that divides the wrong way round
QuantityInverted(position_size_usdt, price) ==
    IF Signum(price) <= 0 THEN Raise("ValueError")
    ELSE IF position_size_usdt.int = <<>> THEN Return(DZero, <<>>)
    ELSE Return(Decimal_truediv(price, position_size_usdt), <<>>)

calculate_quantity_from_usdt(position_size_usdt, price) ==
    IF Signum(price) <= 0 THEN Raise("ValueError")
    ELSE Return(Decimal_truediv(position_size_usdt, price), <<>>)

(***************************************************************************)
(* An entry of the analysis snapshot is [tag, d]: "absent" (no such key),  *)
(* "None", "list" (a value of a type Decimal() does not take), "malformed" *)
(* (a string that is not a number, such as 'abc'), or "numeric" (a string  *)
(* or int denoting the number d).                                          *)
(***************************************************************************)
\* what Decimal(analysis_data[key]) raises, "" when it returns
ConversionError(field) ==
    CASE field.tag = "absent"    -> "KeyError"
      [] field.tag = "None"      -> "TypeError"
      [] field.tag = "list"      -> "ValueError"
      [] field.tag = "malformed" -> "InvalidOperation"
      [] OTHER                   -> ""

\* the exception the try block ends with, "" when all three conversions
\* succeed (atr, then swingHigh, then swingLow)
AnalysisError(analysis_data) ==
    IF ConversionError(analysis_data.atr) # ""
    THEN ConversionError(analysis_data.atr)
    ELSE IF ConversionError(analysis_data.swingHigh) # ""
    THEN ConversionError(analysis_data.swingHigh)
    ELSE ConversionError(analysis_data.swingLow)

\* the exceptions of the except clause
Caught == {"KeyError", "TypeError"}

\* a stop multiplier defaulting to the take-profit's 2.0
DefaultMultiplierSlTwo == [sign |-> 0, int |-> <<2>>, exp |-> 0]

\* atr_multiplier_sl: Decimal = Decimal('1.5')
DefaultMultiplierSl == [sign |-> 0, int |-> <<1, 5>>, exp |-> -1]

\* atr_multiplier_tp: Decimal = Decimal('2.0')
DefaultMultiplierTp == [sign |-> 0, int |-> <<2>>, exp |-> 0]

MultiplierSl(atr_multiplier_sl) ==
    IF atr_multiplier_sl = <<>> THEN DefaultMultiplierSl
    ELSE atr_multiplier_sl[1]

MultiplierTp(atr_multiplier_tp) ==
    IF atr_multiplier_tp = <<>> THEN DefaultMultiplierTp
    ELSE atr_multiplier_tp[1]

\* the take-profit: above the entry for LONG, below it for SHORT
AtrTargetPrice(entry_price, direction, tp_move) ==
    Decimal_fix(AddExact(entry_price,
                         IF direction = "LONG" THEN tp_move
                         ELSE Decimal_neg(tp_move)))

\* a stop that is put below the swing low for SHORT too
AtrStopPriceLongOnly(direction, swing_high, swing_low, sl_move) ==
    Decimal_sub(swing_low, sl_move)

\* the stop: below the swing low for LONG, above the swing high for SHORT
AtrStopPrice(direction, swing_high, swing_low, sl_move) ==
    IF direction = "LONG" THEN Decimal_sub(swing_low, sl_move)
    ELSE Decimal_add(swing_high, sl_move)

\* the local variables sl_price and tp_price of calculate_atr_swing_prices
\* when it reaches its last return statement
AtrLocals(entry_price, direction, analysis_data, atr_multiplier_sl, atr_multiplier_tp) ==
    [sl_price |-> AtrStopPrice(direction, analysis_data.swingHigh.d,
                               analysis_data.swingLow.d,
                               Decimal_mul(analysis_data.atr.d,
                                           MultiplierSl(atr_multiplier_sl))),
     tp_price |-> AtrTargetPrice(entry_price, direction,
                                 Decimal_mul(analysis_data.atr.d,
                                             MultiplierTp(atr_multiplier_tp)))]

ZeroPrices == [tp_price |-> DZero, sl_price |-> DZero]

\* the last return statement: no price below zero
ClampedAtrPrices(l) ==
    Return([tp_price |-> Decimal_max(l.tp_price, DZero),
            sl_price |-> Decimal_max(l.sl_price, DZero)], l)

\* the function once the try block has ended with the exception e ("" for
\* none)
AfterConversion(e, entry_price, direction, analysis_data, atr_multiplier_sl, atr_multiplier_tp) ==
    IF e \in Caught THEN Return(ZeroPrices, <<>>)
    ELSE IF e # "" THEN Raise(e)
    ELSE IF direction \notin {"LONG", "SHORT"} THEN Return(ZeroPrices, <<>>)
    ELSE ClampedAtrPrices(AtrLocals(entry_price, direction, analysis_data,
                                    atr_multiplier_sl, atr_multiplier_tp))

calculate_atr_swing_prices(entry_price, direction, analysis_data, atr_multiplier_sl, atr_multiplier_tp) ==
    AfterConversion(AnalysisError(analysis_data), entry_price, direction,
                    analysis_data, atr_multiplier_sl, atr_multiplier_tp)

\* whether calculate_atr_swing_prices calls logging.error
AtrLogs(analysis_data) == AnalysisError(analysis_data) \in Caught

(***************************************************************************)
(* The inputs the calls are made with                                      *)
(***************************************************************************)
MaxLeverage == 3

MaxPrice == 3

MaxRisk == 1

MaxSwing == 2

\* a number of 50 significant digits, 0.333...3
Third == Decimal_truediv(DecimalOfInt(1), DecimalOfInt(3))

\* "OTHER" stands for any value that is not a PositionDirection member
Directions == {"LONG", "SHORT", "OTHER"}

Leverages == (-1..MaxLeverage) \cup {10}

EntryPrices == {DecimalOfInt(n) : n \in {1, MaxPrice, 30000, -2}}

\* every entry price, direction and leverage with percentages of a few
\* digits, tp2_percentage left out
PlainCalls ==
    [entry_price : EntryPrices, direction : Directions, leverage : Leverages,
     tp1_percentage : {Float5, Float03, Float250},
     sl_percentage : {Float2, Float250},
     tp2_percentage : {<<>>}]

\* tp2_percentage given: zero, negative or positive
Tp2Calls ==
    [entry_price : {DecimalOfInt(1), DecimalOfInt(30000)},
     direction : Directions, leverage : {0, 1, MaxLeverage},
     tp1_percentage : {Float5, Float03, FloatNeg1},
     sl_percentage : {Float2},
     tp2_percentage : {<<Float0>>, <<FloatNeg1>>, <<Float10>>}]

\* percentages far below the 50 digits of an entry price
TinyCalls ==
    [entry_price : {DecimalOfInt(1), Third},
     direction : {"LONG", "SHORT"}, leverage : {1},
     tp1_percentage : {FloatTiny},
     sl_percentage : {Float2, FloatTiny},
     tp2_percentage : {<<>>}]

PercentageCalls == PlainCalls \cup Tp2Calls \cup TinyCalls

Absent == [tag |-> "absent", d |-> DZero]

NoneValue == [tag |-> "None", d |-> DZero]

ListValue == [tag |-> "list", d |-> DZero]

Malformed == [tag |-> "malformed", d |-> DZero]

Numeric(d) == [tag |-> "numeric", d |-> d]

FieldValues ==
    {Absent, NoneValue, ListValue, Malformed}
        \cup {Numeric(DecimalOfInt(n)) : n \in -1..MaxSwing}

\* <<atr_multiplier_sl, atr_multiplier_tp>>, each given or left out
Multipliers ==
    {<< <<>>, <<>> >>,
     << <<DecimalOfInt(3)>>, <<Half>> >>,
     << <<DZero>>, <<DecimalOfInt(3)>> >>}

AtrCalls ==
    [entry_price : {DecimalOfInt(1), DecimalOfInt(10)},
     direction : Directions,
     analysis_data : [atr : FieldValues, swingHigh : FieldValues,
                      swingLow : FieldValues],
     multipliers : Multipliers]

RiskAmounts ==
    {DecimalOfInt(n) : n \in (-1..MaxRisk) \cup {100}} \cup {Half, Third}

Prices ==
    {DecimalOfInt(n) : n \in (-1..MaxPrice) \cup {25000}} \cup {Half}

\* a caller that sizes a position and converts it to a quantity
SizingCalls ==
    [risk_amount : RiskAmounts, leverage : Leverages \cup {5}, price : Prices]

QuantityCalls ==
    [position_size_usdt : {DecimalOfInt(n) : n \in {-3, 0, 1, 500}},
     price : Prices]

(***************************************************************************)
(* The state: the call being made (op, args), where it stands (pc), what   *)
(* the last function returned or raised (ret), the local variables the     *)
(* function held when it returned (locals), and whether logging.error was  *)
(* called (logged).                                                        *)
(***************************************************************************)
VARIABLES pc, op, args, ret, locals, logged

vars == <<pc, op, args, ret, locals, logged>>

Init ==
    /\ pc = "call"
    /\ ret = NoResult
    /\ locals = <<>>
    /\ logged = FALSE
    /\ \/ op = "calculate_percentage_based_prices" /\ args \in PercentageCalls
       \/ op = "calculate_atr_swing_prices" /\ args \in AtrCalls
       \/ op = "position_sizing" /\ args \in SizingCalls
       \/ op = "calculate_quantity_from_usdt" /\ args \in QuantityCalls

\* the function ends as r: the caller sees how, the locals are kept
Returns(r) == ret' = Outcome(r) /\ locals' = r.locals

CalculatePercentageBasedPrices ==
    /\ pc = "call"
    /\ op = "calculate_percentage_based_prices"
    /\ Returns(calculate_percentage_based_prices(
                   args.entry_price, args.direction, args.leverage,
                   args.tp1_percentage, args.sl_percentage,
                   args.tp2_percentage))
    /\ pc' = "done"
    /\ UNCHANGED <<op, args, logged>>

CalculateAtrSwingPrices ==
    /\ pc = "call"
    /\ op = "calculate_atr_swing_prices"
    /\ Returns(calculate_atr_swing_prices(
                   args.entry_price, args.direction, args.analysis_data,
                   args.multipliers[1], args.multipliers[2]))
    /\ logged' = AtrLogs(args.analysis_data)
    /\ pc' = "done"
    /\ UNCHANGED <<op, args>>

CalculatePositionSize ==
    /\ pc = "call"
    /\ op = "position_sizing"
    /\ ret' = Outcome(calculate_position_size_usdt(args.risk_amount,
                                                   args.leverage))
    /\ pc' = IF ret'.kind = "return" THEN "sized" ELSE "done"
    /\ UNCHANGED <<op, args, locals, logged>>

\* the quantity of a given position value, or of the one just computed
CalculateQuantity ==
    /\ \/ /\ pc = "call"
          /\ op = "calculate_quantity_from_usdt"
          /\ locals' = [position_size_usdt |-> args.position_size_usdt]
       \/ /\ pc = "sized"
          /\ locals' = [position_size_usdt |-> ret.val]
    /\ ret' = Outcome(calculate_quantity_from_usdt(locals'.position_size_usdt,
                                                   args.price))
    /\ pc' = "done"
    /\ UNCHANGED <<op, args, logged>>

Next ==
    \/ CalculatePercentageBasedPrices
    \/ CalculateAtrSwingPrices
    \/ CalculatePositionSize
    \/ CalculateQuantity

Spec == Init /\ [][Next]_vars

Done(f) == pc = "done" /\ op = f

(***************************************************************************)
(* Properties                                                              *)
(***************************************************************************)
Pct == "calculate_percentage_based_prices"

Atr == "calculate_atr_swing_prices"

Negative(d) == d.sign = 1

Positive(d) == d.sign = 0 /\ d.int # <<>>

\* max(0, d)
Floor0(d) == IF Negative(d) THEN DZero ELSE d

Twice(d) == Decimal_add(d, d)

ValueError == [kind |-> "raise", exc |-> "ValueError", val |-> <<>>]

Returned(v) == [kind |-> "return", exc |-> "", val |-> v]

\* the factor of the percentage in force for TP2
Tp2InForce(a) ==
    IF a.tp2_percentage = <<>> \/ ~Positive(a.tp2_percentage[1].val)
    THEN Twice(PercentFactor(a.tp1_percentage))
    ELSE PercentFactor(a.tp2_percentage[1])

\* entry_price times the factor divided by the leverage
Delta(a, factor) ==
    Decimal_mul(a.entry_price,
                Decimal_truediv(factor, DecimalOfInt(a.leverage)))

Above(a, d) == Floor0(Decimal_add(a.entry_price, d))

Below(a, d) == Floor0(Decimal_sub(a.entry_price, d))

Prices3(a, b, c) == [tp1_price |-> a, sl_price |-> b, tp2_price |-> c]

Scenario1(a) ==
    /\ a.entry_price = DecimalOfInt(30000)
    /\ a.leverage = 10
    /\ a.tp1_percentage = Float5
    /\ a.sl_percentage = Float2
    /\ a.tp2_percentage = <<>>

\* C1: with leverage > 0 and direction LONG or SHORT, each price change is
\* entry_price * (pct / 100 / leverage) in Decimal arithmetic, LONG puts
\* TP1 and TP2 above the entry and SL below, SHORT the other way round,
\* each floored at 0; 30000, leverage 10, 5% and 2% give 30150 / 29940 /
\* 30300 for LONG and 29850 / 30060 / 29700 for SHORT.
C1_PriceFormula ==
    (Done(Pct) /\ args.leverage > 0 /\ args.direction \in {"LONG", "SHORT"})
    => LET d1 == Delta(args, PercentFactor(args.tp1_percentage))
           ds == Delta(args, PercentFactor(args.sl_percentage))
           d2 == Delta(args, Tp2InForce(args))
       IN  /\ locals.price_change_tp1 = d1
           /\ locals.price_change_sl = ds
           /\ locals.price_change_tp2 = d2
           /\ args.direction = "LONG" =>
                  ret = Returned(Prices3(Above(args, d1), Below(args, ds),
                                         Above(args, d2)))
           /\ args.direction = "SHORT" =>
                  ret = Returned(Prices3(Below(args, d1), Above(args, ds),
                                         Below(args, d2)))
           /\ (Scenario1(args) /\ args.direction = "LONG") =>
                  ret.val = Prices3(DecimalOfInt(30150), DecimalOfInt(29940),
                                    DecimalOfInt(30300))
           /\ (Scenario1(args) /\ args.direction = "SHORT") =>
                  ret.val = Prices3(DecimalOfInt(29850), DecimalOfInt(30060),
                                    DecimalOfInt(29700))

C1_Witness ==
    /\ Done(Pct)
    /\ Scenario1(args)
    /\ args.direction = "SHORT"
    /\ ret.kind = "return"
    /\ ret.val.sl_price = DecimalOfInt(30060)

\* C2: calculate_percentage_based_prices raises ValueError when leverage
\* <= 0 or the direction is neither LONG nor SHORT,
\* calculate_position_size_usdt when leverage <= 0 or risk_amount < 0,
\* calculate_quantity_from_usdt when price <= 0, whatever the other
\* arguments: no value is returned.
C2_HardFail ==
    /\ (Done(Pct) /\ (args.leverage <= 0
                        \/ args.direction \notin {"LONG", "SHORT"}))
       => ret = ValueError
    /\ (op = "position_sizing" /\ pc # "call"
          /\ (args.leverage <= 0 \/ Negative(args.risk_amount)))
       => (pc = "done" /\ ret = ValueError)
    /\ (pc = "done" /\ op = "position_sizing"
          /\ args.leverage > 0 /\ ~Negative(args.risk_amount)
          /\ ~Positive(args.price))
       => ret = ValueError
    /\ (Done("calculate_quantity_from_usdt") /\ ~Positive(args.price))
       => ret = ValueError

C2_Witness ==
    /\ pc = "done"
    /\ op = "position_sizing"
    /\ args.leverage > 0
    /\ Negative(args.risk_amount)
    /\ Positive(args.price)
    /\ ret.kind = "raise"

\* out is raw floored at zero
Clamped(raw, out) ==
    /\ out.sign = 0
    /\ Negative(raw) => out = DZero
    /\ ~Negative(raw) => out = raw

\* C3: every price calculate_percentage_based_prices and
\* calculate_atr_swing_prices return is >= 0: exactly 0 where the computed
\* value is negative, the computed value itself where it is not.
C3_NonNegativePrices ==
    /\ (Done(Pct) /\ ret.kind = "return")
       => /\ Clamped(locals.tp1_price, ret.val.tp1_price)
          /\ Clamped(locals.sl_price, ret.val.sl_price)
          /\ Clamped(locals.tp2_price, ret.val.tp2_price)
    /\ (Done(Atr) /\ ret.kind = "return")
       => IF locals = <<>> THEN ret.val = ZeroPrices
          ELSE /\ Clamped(locals.tp_price, ret.val.tp_price)
               /\ Clamped(locals.sl_price, ret.val.sl_price)

C3_Witness ==
    /\ Done(Pct)
    /\ ret.kind = "return"
    /\ Negative(locals.tp1_price)
    /\ ret.val.tp1_price = DZero
    /\ Positive(locals.sl_price)
    /\ ret.val.sl_price = locals.sl_price

\* tp2_percentage is left out, zero or negative
Tp2Defaulted(a) ==
    a.tp2_percentage = <<>> \/ ~Positive(a.tp2_percentage[1].val)

\* the call with tp2_percentage = 2 * tp1_percentage
DoubledCall(a) ==
    Outcome(calculate_percentage_based_prices(
                a.entry_price, a.direction, a.leverage, a.tp1_percentage,
                a.sl_percentage, <<FloatDouble(a.tp1_percentage)>>))

\* str(2 * x) is exactly twice the decimal str(x)
DoublesInDecimal(x) ==
    DecimalOfFloatStr(FloatDouble(x))
        = AddExact(DecimalOfFloatStr(x), DecimalOfFloatStr(x))

\* C4 as stated: with tp2_percentage left out, zero or negative the
\* result is the result of the call with tp2_percentage = 2 *
\* tp1_percentage.
C4_SameAsDoubledCall ==
    (Done(Pct) /\ ret.kind = "return" /\ Tp2Defaulted(args))
    => ret = DoubledCall(args)

\* C4 amended: with tp2_percentage left out, zero or negative the TP2
\* factor is exactly twice the TP1 factor Decimal(str(tp1_percentage)) /
\* 100, tp1_price and sl_price are those of the call with tp2_percentage =
\* 2 * tp1_percentage, and the whole result is that call's whenever
\* tp1_percentage <= 0 or str(2 * tp1_percentage) is exactly twice the
\* decimal str(tp1_percentage).
C4_DefaultIsTwiceTp1Factor ==
    (Done(Pct) /\ ret.kind = "return" /\ Tp2Defaulted(args))
    => LET d2 == Delta(args, Twice(PercentFactor(args.tp1_percentage)))
           r2 == DoubledCall(args)
       IN  /\ locals.price_change_tp2 = d2
           /\ ret.val.tp2_price = IF args.direction = "LONG"
                                  THEN Above(args, d2) ELSE Below(args, d2)
           /\ ret.val.tp1_price = r2.val.tp1_price
           /\ ret.val.sl_price = r2.val.sl_price
           /\ (~Positive(args.tp1_percentage.val)
                 \/ DoublesInDecimal(args.tp1_percentage)) => ret = r2

C4_Witness ==
    /\ Done(Pct)
    /\ ret.kind = "return"
    /\ args.tp2_percentage = <<FloatNeg1>>
    /\ args.tp1_percentage = Float03
    /\ ret # DoubledCall(args)
    /\ Positive(ret.val.tp2_price)

AnalysisFields(a) ==
    {a.analysis_data.atr, a.analysis_data.swingHigh, a.analysis_data.swingLow}

ValidAnalysis(a) == \A f \in AnalysisFields(a) : f.tag = "numeric"

\* C5 as stated: when atr, swingHigh or swingLow is absent or not
\* convertible to Decimal, calculate_atr_swing_prices logs and returns
\* {tp_price: 0, sl_price: 0}; it never raises.
C5_SoftFailOnBadAnalysis ==
    (Done(Atr) /\ ~ValidAnalysis(args))
    => (ret = Returned(ZeroPrices) /\ logged)

\* C6 as stated: when the direction is neither LONG nor SHORT,
\* calculate_atr_swing_prices logs and returns {tp_price: 0, sl_price: 0},
\* also with a valid analysis snapshot; it never raises.
C6_SoftFailOnBadDirection ==
    (Done(Atr) /\ args.direction \notin {"LONG", "SHORT"})
    => (ret = Returned(ZeroPrices) /\ logged)

\* the multipliers in force: 1.5 and 2.0 unless given
SlMultiplier(a) ==
    IF a.multipliers[1] = <<>> THEN Dec(0, <<1, 5>>, -1)
    ELSE a.multipliers[1][1]

TpMultiplier(a) ==
    IF a.multipliers[2] = <<>> THEN DecimalOfInt(2) ELSE a.multipliers[2][1]

\* C7: with a valid analysis snapshot, LONG gives sl_price = max(0,
\* swingLow - atr * sl_multiplier) and tp_price = max(0, entry_price + atr
\* * tp_multiplier), SHORT gives sl_price = max(0, swingHigh + atr *
\* sl_multiplier) and tp_price = max(0, entry_price - atr *
\* tp_multiplier); the multipliers are 1.5 and 2.0 when not given.
C7_AtrFormula ==
    (Done(Atr) /\ ValidAnalysis(args) /\ args.direction \in {"LONG", "SHORT"})
    => LET atr == args.analysis_data.atr.d
           sl  == Decimal_mul(atr, SlMultiplier(args))
           tp  == Decimal_mul(atr, TpMultiplier(args))
       IN  IF args.direction = "LONG"
           THEN ret = Returned(
                    [tp_price |-> Above(args, tp),
                     sl_price |-> Floor0(Decimal_sub(
                                      args.analysis_data.swingLow.d, sl))])
           ELSE ret = Returned(
                    [tp_price |-> Below(args, tp),
                     sl_price |-> Floor0(Decimal_add(
                                      args.analysis_data.swingHigh.d, sl))])

C7_Witness ==
    /\ Done(Atr)
    /\ args.direction = "LONG"
    /\ args.multipliers = << <<>>, <<>> >>
    /\ args.entry_price = DecimalOfInt(10)
    /\ ValidAnalysis(args)
    /\ args.analysis_data.atr.d = DecimalOfInt(1)
    /\ args.analysis_data.swingLow.d = DecimalOfInt(2)
    /\ ret = Returned([tp_price |-> DecimalOfInt(12), sl_price |-> Half])

\* a valid call whose TP1 and SL changes are positive and whose TP1 and SL
\* prices are not floored
OrderedCase ==
    /\ Done(Pct)
    /\ ret.kind = "return"
    /\ Positive(args.entry_price)
    /\ Positive(locals.price_change_tp1)
    /\ Positive(locals.price_change_sl)
    /\ ~Negative(locals.tp1_price)
    /\ ~Negative(locals.sl_price)

Gt(a, b) == Decimal_cmp(a, b) > 0

Ge(a, b) == Decimal_cmp(a, b) >= 0

\* the least change that 50 digits tell from the entry price:
\* entry_price * 10^-49
Resolved(a, change) ==
    Ge(change, Dec(0, a.entry_price.int, a.entry_price.exp - (Prec - 1)))

\* C8 as stated: in such a case a LONG has tp1_price > entry_price >
\* sl_price and a SHORT has sl_price > entry_price > tp1_price.
C8_StrictOrder ==
    OrderedCase
    => IF args.direction = "LONG"
       THEN /\ Gt(ret.val.tp1_price, args.entry_price)
            /\ Gt(args.entry_price, ret.val.sl_price)
       ELSE /\ Gt(ret.val.sl_price, args.entry_price)
            /\ Gt(args.entry_price, ret.val.tp1_price)

\* C8 amended: in such a case, for an entry price of at most 50
\* significant digits, a LONG has tp1_price >= entry_price >= sl_price and
\* a SHORT has sl_price >= entry_price >= tp1_price; an inequality is
\* strict whenever its price change is at least entry_price * 10^-49.
C8_Order ==
    (OrderedCase /\ Len(args.entry_price.int) <= Prec)
    => LET hi  == IF args.direction = "LONG" THEN ret.val.tp1_price
                  ELSE ret.val.sl_price
           lo  == IF args.direction = "LONG" THEN ret.val.sl_price
                  ELSE ret.val.tp1_price
           dhi == IF args.direction = "LONG" THEN locals.price_change_tp1
                  ELSE locals.price_change_sl
           dlo == IF args.direction = "LONG" THEN locals.price_change_sl
                  ELSE locals.price_change_tp1
       IN  /\ Ge(hi, args.entry_price)
           /\ Ge(args.entry_price, lo)
           /\ Resolved(args, dhi) => Gt(hi, args.entry_price)
           /\ Resolved(args, dlo) => Gt(args.entry_price, lo)

C8_Witness ==
    /\ OrderedCase
    /\ args.direction = "LONG"
    /\ args.tp1_percentage = FloatTiny
    /\ args.sl_percentage = Float2
    /\ ret.val.tp1_price = args.entry_price
    /\ Gt(args.entry_price, ret.val.sl_price)

\* C9: for risk_amount >= 0, leverage > 0 and price > 0 the position size
\* is risk_amount * leverage and its quantity is risk_amount * leverage /
\* price in Decimal arithmetic (exact when the division ends: 100 at
\* leverage 5 is 500, and 500 at 25000 is 0.02); no step floors or changes
\* the value, and a negative position value gives a negative quantity.
C9_SizeAndQuantity ==
    /\ (pc = "sized") => ret = Returned(Decimal_mul(args.risk_amount,
                                            DecimalOfInt(args.leverage)))
    /\ (Done("position_sizing") /\ ret.kind = "return")
       => LET size == Decimal_mul(args.risk_amount,
                                  DecimalOfInt(args.leverage))
          IN  /\ locals.position_size_usdt = size
              /\ ret.val = Decimal_truediv(size, args.price)
              /\ (args.price.int \in {<<1>>, <<2>>, <<5>>, <<2, 5>>}
                    /\ Len(args.risk_amount.int) < Prec - 2)
                 => MulExact(ret.val, args.price)
                        = MulExact(args.risk_amount,
                                   DecimalOfInt(args.leverage))
              /\ (args.risk_amount = DecimalOfInt(100) /\ args.leverage = 5)
                 => size = DecimalOfInt(500)
    /\ (Done("calculate_quantity_from_usdt") /\ ret.kind = "return")
       => /\ ret.val = Decimal_truediv(args.position_size_usdt, args.price)
          /\ ret.val.sign = args.position_size_usdt.sign
          /\ (args.position_size_usdt = DecimalOfInt(500)
                /\ args.price = DecimalOfInt(25000))
             => ret.val = Dec(0, <<2>>, -2)

C9_Witness ==
    /\ Done("position_sizing")
    /\ args.risk_amount = DecimalOfInt(100)
    /\ args.leverage = 10
    /\ args.price = DecimalOfInt(25000)
    /\ locals.position_size_usdt = DecimalOfInt(1000)
    /\ ret = Returned(Dec(0, <<4>>, -2))

\* a well-formed call of calculate_atr_swing_prices
WellFormedAtr ==
    /\ Done(Atr)
    /\ args.direction \in {"LONG", "SHORT"}
    /\ Positive(args.entry_price)
    /\ ValidAnalysis(args)
    /\ \A f \in AnalysisFields(args) : ~Negative(f.d)
    /\ Positive(SlMultiplier(args))
    /\ Positive(TpMultiplier(args))

\* C10: a well-formed call (direction LONG or SHORT, entry_price > 0,
\* valid analysis with atr, swingHigh, swingLow >= 0, multipliers > 0)
\* never returns {tp_price: 0, sl_price: 0}: one of the two prices is > 0.
C10_ZeroIsSentinel ==
    WellFormedAtr
    => /\ ret.kind = "return"
       /\ Positive(ret.val.tp_price) \/ Positive(ret.val.sl_price)

C10_Witness ==
    /\ WellFormedAtr
    /\ args.direction = "SHORT"
    /\ args.analysis_data.swingHigh.d = DZero
    /\ ret.val.tp_price = DZero
    /\ Negative(locals.tp_price)
    /\ Positive(ret.val.sl_price)

=============================================================================
